---- MODULE Spec2Model ----
(***************************************************************************)
(* A model of dandi/upload.py: the replace decision (check_replace_asset), *)
(* the per-asset job (upload.process_path) and the dispatch loop and batch *)
(* finalisation of upload().                                               *)
(*                                                                         *)
(* Optional values (Python's None) are sequences of length at most one:    *)
(* None is <<>> and a value v is <<v>>.                                    *)
(*                                                                         *)
(* Collaborators behave as the code provides for them: a call the code     *)
(* wraps in try/except (size, digest, remote lookup, metadata extraction)  *)
(* and the requests that change the remote (set_raw_metadata, the          *)
(* transfer) may fail; get_validation_errors and get_raw_metadata return.  *)
(***************************************************************************)
EXTENDS Naturals, Sequences, FiniteSets, TLC

VARIABLES
    \* ---- arguments of upload() and the discovered files
    existing,                   \* conflict policy
    validation,                 \* "require" | "ignore" | "skip"
    devel_debug,                \* serial mode
    jobs,                       \* Optional[int]
    upload_dandiset_metadata,
    dandi_files,                \* sequence of files; a file is named by its index
                                \* and is [kind, modified, digest, size]
    sync,                       \* the Delete-Sync pass is requested
    paths,                      \* the input paths, relative to the dandiset
    \* ---- what the Delete-Sync pass finds when it runs
    remote_assets,              \* paths of the assets of the remote dandiset
    local_exists,               \* asset paths at which a local file exists
    confirm,                    \* the answer to click.confirm
    \* ---- state shared by the jobs (closure variables of upload)
    process_paths,              \* set of files being processed
    uploaded_paths,             \* file -> Optional[Uploaded]; <<>> is "no entry"
    upload_err,                 \* Optional[exception]
    validate_ok,
    \* ---- the dispatch loop and the end of upload()
    main_pc,                    \* "loop" | "serial" | "final" | "returned" | "raised"
    idx,                        \* index of the next file of the for loop
    raised,                     \* Optional[exception] that left upload()
    deleted,                    \* paths of the remote assets deleted
    \* ---- one generator process_path(dfile) per file
    pc,                         \* position of the generator
    file_etag,                  \* Optional[Digest]
    extant,                     \* "unset" | "None" | "asset"
    validating,                 \* the flag of the transfer loop
    exc,                        \* Optional[exception] being handled
    err_was_none,               \* result of the test `upload_err is None`
    last,                       \* the latest status record reported for the file
    calls,                      \* collaborator calls made for the file so far
    thrown,                     \* Optional[exception] the job of the file raised
    emitted,                    \* the records reported for the file from its first
                                \* done, skipped or ERROR on
    trace,                      \* the events of the transfer of the file, as received
                                \* from iter_upload and as forwarded, when they are
                                \* recorded; None when they are not
    dispatched,                 \* the files given to process_path, in order
    \* ---- one direct application of check_replace_asset
    args,
    result

run_vars == <<existing, validation, devel_debug, jobs, upload_dandiset_metadata,
              dandi_files, sync, paths, remote_assets, local_exists, confirm>>
shared_vars == <<process_paths, uploaded_paths, upload_err, validate_ok>>
main_vars == <<main_pc, idx, raised, dispatched, deleted>>
job_vars == <<pc, file_etag, extant, validating, exc, err_was_none, last, calls,
              thrown, emitted, trace>>
call_vars == <<args, result>>
vars == <<run_vars, shared_vars, main_vars, job_vars, call_vars>>

----------------------------------------------------------------------------
(* Bounds of the model *)

\* modification times are 1..MaxTime
MaxTime == 2
\* distinct digest values are 1..MaxDigest
MaxDigest == 2
\* transferred-byte counts reported by the transfer are 1..MaxBytes
MaxBytes == 2
\* number of files of a batch
MaxFiles == 2
\* largest explicit value of the jobs argument
MaxJobs == 2
\* number of input paths
MaxPaths == 2
\* number of events of a transfer that is recorded
MaxEvents == 3

----------------------------------------------------------------------------
(* Values *)

None == <<>>
Some(v) == <<v>>
Get(o) == o[1]

Policies == {"error", "skip", "overwrite", "refresh", "force"}
\* a value of `existing` outside the five policies
BadPolicy == "bogus"
Validations == {"require", "ignore", "skip"}

\* DandisetMetadataFile, a LocalAsset that is no directory, ZarrAsset
Kinds == {"dandiset.yaml", "file", "zarr"}
IsLocalAsset(kind) == kind \in {"file", "zarr"}
IsLocalDirectoryAsset(kind) == kind = "zarr"
IsZarrAsset(kind) == kind = "zarr"

Algorithms == {"dandi:dandi-etag", "dandi:sha2-256"}
DigestValues == 1..MaxDigest
Times == 1..MaxTime
\* Digest of a local file: get_digest() of a non-Zarr asset is a dandi-etag
Digest(value) == [algorithm |-> "dandi:dandi-etag", value |-> value]
\* the "digest" mapping of a remote asset's metadata: algorithm -> value
DigestMaps == UNION {[S -> DigestValues] : S \in SUBSET Algorithms}
\* blobDateModified is an ISO 8601 string; the model writes the string of
\* the instant t as <<"iso", t>>
DateStrings == {<<"iso", t>> : t \in Times}
RemoteMetadata == [digest : DigestMaps,
                   blobDateModified : {None} \cup {Some(s) : s \in DateStrings}]

ensure_datetime(s) == s[2]

DictGet(d, k) == IF k \in DOMAIN d THEN Some(d[k]) ELSE None

skip_file(msg) == [status |-> "skipped", message |-> msg]
error_file(msg) == [status |-> "ERROR", message |-> msg]
Status(s) == [status |-> s, message |-> ""]
Message(m) == [status |-> "", message |-> m]

Exception(type, msg) == [type |-> type, message |-> msg]

----------------------------------------------------------------------------
(* check_replace_asset *)

\* RemoteEtag falling back on the digest of another algorithm
RemoteEtagAnyAlgorithm(metadata, local_etag) ==
    IF local_etag.algorithm \in DOMAIN metadata.digest
    THEN Some(metadata.digest[local_etag.algorithm])
    ELSE IF DOMAIN metadata.digest # {}
    THEN Some(metadata.digest[CHOOSE k \in DOMAIN metadata.digest : TRUE])
    ELSE None

\* metadata.get("digest", {}).get(local_etag.algorithm.value)
RemoteEtag(metadata, local_etag) == DictGet(metadata.digest, local_etag.algorithm)

\* a comparison of digests that never finds them equal
EtagNeverEqual(remote_etag, local_etag) == FALSE

\* remote_etag == local_etag.value
EtagEqual(remote_etag, local_etag) == remote_etag = Some(local_etag.value)

\* FileStatus calling equal digests "same" whatever the mtimes
FileStatusDigestOnly(etag_equal, remote_mtime, local_mtime) ==
    IF etag_equal THEN "same"
    ELSE IF remote_mtime > local_mtime THEN "newer"
    ELSE IF remote_mtime < local_mtime THEN "older"
    ELSE "diff"

\* the conditional expression assigned to remote_file_status
FileStatus(etag_equal, remote_mtime, local_mtime) ==
    IF etag_equal /\ remote_mtime = local_mtime THEN "same"
    ELSE IF remote_mtime > local_mtime THEN "newer"
    ELSE IF remote_mtime < local_mtime THEN "older"
    ELSE "diff"

remote_file_status(remote_etag, local_etag, remote_mtime_str, local_mtime) ==
    IF remote_mtime_str # None
    THEN FileStatus(EtagEqual(remote_etag, local_etag),
                    ensure_datetime(Get(remote_mtime_str)), local_mtime)
    ELSE "no mtime"

exists_msg(status) == "exists (" \o status \o ")"

\* the branch `existing == "overwrite"`: TRUE when it returns the skip
OverwriteSkips(remote_etag, local_etag) == EtagEqual(remote_etag, local_etag)

\* RefreshIsFresh with > for >=
RefreshIsFreshStrict(remote_mtime_str, local_mtime) ==
    /\ remote_mtime_str # None
    /\ ensure_datetime(Get(remote_mtime_str)) > local_mtime

\* the branch `existing == "refresh"`, second test
RefreshIsFresh(remote_mtime_str, local_mtime) ==
    /\ remote_mtime_str # None
    /\ ensure_datetime(Get(remote_mtime_str)) >= local_mtime

\* PolicyChain without its final else: an unknown value goes on like force
PolicyChainNoElse(policy, remote_etag, local_etag, remote_mtime_str, local_mtime, msg) ==
    IF policy = "overwrite"
    THEN IF OverwriteSkips(remote_etag, local_etag)
         THEN Some([raise |-> None, replace |-> FALSE, out |-> skip_file(msg)])
         ELSE None
    ELSE IF policy = "refresh"
    THEN IF EtagEqual(remote_etag, local_etag)
         THEN Some([raise |-> None, replace |-> FALSE, out |-> skip_file("file exists")])
         ELSE IF RefreshIsFresh(remote_mtime_str, local_mtime)
         THEN Some([raise |-> None, replace |-> FALSE, out |-> skip_file(msg)])
         ELSE None
    ELSE None

\* PolicyChain without the branch `elif existing == "force"`
PolicyChainNoForce(policy, remote_etag, local_etag, remote_mtime_str, local_mtime, msg) ==
    IF policy = "overwrite"
    THEN IF OverwriteSkips(remote_etag, local_etag)
         THEN Some([raise |-> None, replace |-> FALSE, out |-> skip_file(msg)])
         ELSE None
    ELSE IF policy = "refresh"
    THEN IF EtagEqual(remote_etag, local_etag)
         THEN Some([raise |-> None, replace |-> FALSE, out |-> skip_file("file exists")])
         ELSE IF RefreshIsFresh(remote_mtime_str, local_mtime)
         THEN Some([raise |-> None, replace |-> FALSE, out |-> skip_file(msg)])
         ELSE None
    ELSE Some([raise |-> Some(Exception("ValueError", "invalid value for 'existing'")),
               replace |-> FALSE, out |-> Message("")])

\* the if/elif chain over `existing` after the error and skip policies:
\* the record returned early, the ValueError, or None to fall through
PolicyChain(policy, remote_etag, local_etag, remote_mtime_str, local_mtime, msg) ==
    IF policy = "overwrite"
    THEN IF OverwriteSkips(remote_etag, local_etag)
         THEN Some([raise |-> None, replace |-> FALSE, out |-> skip_file(msg)])
         ELSE None
    ELSE IF policy = "refresh"
    THEN IF EtagEqual(remote_etag, local_etag)
         THEN Some([raise |-> None, replace |-> FALSE, out |-> skip_file("file exists")])
         ELSE IF RefreshIsFresh(remote_mtime_str, local_mtime)
         THEN Some([raise |-> None, replace |-> FALSE, out |-> skip_file(msg)])
         ELSE None
    ELSE IF policy = "force"
    THEN None
    ELSE Some([raise |-> Some(Exception("ValueError", "invalid value for 'existing'")),
               replace |-> FALSE, out |-> Message("")])

\* PolicyEarly where the error policy skips instead of raising
PolicyEarlyErrorSkips(policy, msg) ==
    IF policy \in {"error", "skip"}
    THEN Some([raise |-> None, replace |-> FALSE, out |-> skip_file(msg)])
    ELSE None

\* PolicyEarly without the test `existing == "skip"`
PolicyEarlyNoSkip(policy, msg) ==
    IF policy = "error"
    THEN Some([raise |-> Some(Exception("FileExistsError", msg)), replace |-> FALSE,
               out |-> Message("")])
    ELSE None

\* the tests `existing == "error"` and `existing == "skip"`: the raise, the
\* skip, or None to go on to the chain
PolicyEarly(policy, msg) ==
    IF policy = "error"
    THEN Some([raise |-> Some(Exception("FileExistsError", msg)), replace |-> FALSE,
               out |-> Message("")])
    ELSE IF policy = "skip"
    THEN Some([raise |-> None, replace |-> FALSE, out |-> skip_file(msg)])
    ELSE None

\* check_replace_asset without its test on ZarrAsset
ZarrShortcutMissing(local_asset) == FALSE

\* the test on ZarrAsset that opens check_replace_asset
ZarrShortcut(local_asset) == IsZarrAsset(local_asset.kind)

\* check_replace_asset: [raise, replace, out]; replace and out mean nothing
\* when raise is an exception
check_replace_asset(local_asset, remote_asset, policy, local_etag) ==
    IF ZarrShortcut(local_asset)
    THEN [raise |-> None, replace |-> TRUE, out |-> Message("exists - reuploading")]
    ELSE IF local_etag = None
    THEN [raise |-> Some(Exception("AssertionError", "")), replace |-> FALSE,
          out |-> Message("")]
    ELSE
      LET metadata == remote_asset
          local_mtime == local_asset.modified
          remote_mtime_str == metadata.blobDateModified
          remote_etag == RemoteEtag(metadata, Get(local_etag))
          msg == exists_msg(remote_file_status(remote_etag, Get(local_etag),
                                               remote_mtime_str, local_mtime))
          chain == PolicyChain(policy, remote_etag, Get(local_etag),
                               remote_mtime_str, local_mtime, msg)
          early == PolicyEarly(policy, msg)
      IN  IF early # None
          THEN Get(early)
          ELSE IF chain # None
          THEN Get(chain)
          ELSE [raise |-> None, replace |-> TRUE,
                out |-> Message(msg \o " - reuploading")]

----------------------------------------------------------------------------
(* upload(): the files, the worker pool and the exceptions *)

Files == 1..Len(dandi_files)
Kind(a) == dandi_files[a].kind

\* the limit of the admission loop, `while len(process_paths) >= 10`
MaxProcessPaths == 10
\* the pool size when jobs is not given, `jobs or 5`
DefaultWorkers == 5

\* a pool that ignores the jobs argument
max_workers_ignores_jobs == DefaultWorkers

\* max_workers=jobs or 5
max_workers == IF jobs = None THEN DefaultWorkers ELSE Get(jobs)

\* an exception raised in the job of file a; `job` stands for the identity
\* of the exception object
Raise(a, e) == [type |-> e.type, message |-> e.message, job |-> a]
UploadError(a, msg) == Raise(a, Exception("UploadError", msg))

\* the generator of file a has started and has not returned or raised
InFlight(a) == pc[a] \notin {"new", "queued", "end"}

\* the pool has an idle worker: it runs at most max_workers generators
PoolHasIdleWorker == Cardinality({a \in Files : InFlight(a)}) < max_workers

Uploaded(size, errors) == [size |-> size, errors |-> errors]
\* uploaded_paths[strpath], which inserts the default entry when it is missing
Entry(a) == IF uploaded_paths[a] = None THEN Uploaded(0, <<>>) ELSE Get(uploaded_paths[a])

TerminalStatuses == {"done", "skipped", "ERROR"}
\* the records reported from the first terminal one on, after rec is reported
Report(log, rec) ==
    IF log # <<>> \/ rec.status \in TerminalStatuses THEN Append(log, rec) ELSE log
\* `yield rec`, and in serial mode `rec.update(...)` of the dispatch loop
Yield(a, rec) == /\ last' = [last EXCEPT ![a] = rec]
                 /\ emitted' = [emitted EXCEPT ![a] = Report(@, rec)]
\* an event of iter_upload: its status and, when "uploading", its byte count
Event(status, current) == [status |-> status, current |-> current]
\* iter_upload yields the event r, of which process_path yields the records fwd
Trace(a, r, fwd) ==
    trace' = IF trace[a] = None THEN trace
             ELSE [trace EXCEPT ![a] = Some([received |-> Append(Get(@).received, r),
                                             forwarded |-> Get(@).forwarded \o fwd])]
\* a recorded transfer yields at most MaxEvents events
TurnAllowed(a) == IF trace[a] = None THEN TRUE
                  ELSE Len(Get(trace[a]).received) < MaxEvents
Call(a, name) == calls' = [calls EXCEPT ![a] = @ \cup {name}]
Goto(a, label) == pc' = [pc EXCEPT ![a] = label]
\* an exception leaves the try block: control is at `except Exception as exc`
Throw(a, e) == /\ exc' = [exc EXCEPT ![a] = Some(e)]
               /\ thrown' = [thrown EXCEPT ![a] = Some(e)]
               /\ pc' = [pc EXCEPT ![a] = "except"]
NoThrow == UNCHANGED <<exc, thrown>>

----------------------------------------------------------------------------
(* The dispatch loop *)

\* Dispatch creating the entry of the file in uploaded_paths
DispatchCreatesEntry ==
    /\ main_pc = "loop"
    /\ idx <= Len(dandi_files)
    /\ Cardinality(process_paths) < MaxProcessPaths
    /\ process_paths' = process_paths \cup {idx}
    /\ uploaded_paths' = [uploaded_paths EXCEPT ![idx] = Some(Uploaded(0, <<>>))]
    /\ idx' = idx + 1
    /\ dispatched' = Append(dispatched, idx)
    /\ IF devel_debug
       THEN /\ main_pc' = "serial"
            /\ pc' = [pc EXCEPT ![idx] = "size"]
       ELSE /\ main_pc' = "loop"
            /\ pc' = [pc EXCEPT ![idx] = "queued"]
    /\ NoThrow
    /\ UNCHANGED <<run_vars, upload_err, validate_ok, raised, deleted,
                   file_etag, extant, validating, err_was_none, last, emitted, calls,
                   trace, call_vars>>

\* one turn of `for dfile in dandi_files`, from the admission test to out(rec)
Dispatch ==
    /\ main_pc = "loop"
    /\ idx <= Len(dandi_files)
    /\ Cardinality(process_paths) < MaxProcessPaths
    /\ process_paths' = process_paths \cup {idx}
    /\ idx' = idx + 1
    /\ dispatched' = Append(dispatched, idx)
    /\ IF devel_debug
       THEN /\ main_pc' = "serial"
            /\ pc' = [pc EXCEPT ![idx] = "size"]
       ELSE /\ main_pc' = "loop"
            /\ pc' = [pc EXCEPT ![idx] = "queued"]
    /\ NoThrow
    /\ UNCHANGED <<run_vars, uploaded_paths, upload_err, validate_ok, raised, deleted,
                   file_etag, extant, validating, err_was_none, last, emitted, calls,
                   trace, call_vars>>

\* a worker of the pool starts iterating the generator of file a
PoolStart(a) ==
    /\ pc[a] = "queued"
    /\ PoolHasIdleWorker
    /\ Goto(a, "size")
    /\ NoThrow
    /\ UNCHANGED <<run_vars, shared_vars, main_vars, file_etag, extant, validating,
                   err_was_none, last, emitted, calls, trace, call_vars>>

----------------------------------------------------------------------------
(* process_path *)

\* `yield {"size": dfile.size}` and its two except clauses
JobSize(a) ==
    /\ pc[a] = "size"
    /\ IF IsLocalDirectoryAsset(Kind(a))
       THEN /\ Goto(a, "validate")
            /\ NoThrow
            /\ UNCHANGED <<last, emitted, calls>>
       ELSE /\ Call(a, "size")
            /\ \/ /\ Goto(a, "validate")
                  /\ Yield(a, Status("size"))
                  /\ NoThrow
               \/ /\ Throw(a, UploadError(a, "File not found"))
                  /\ UNCHANGED <<last, emitted>>
               \/ /\ Throw(a, UploadError(a, "str(exc)[:50]"))
                  /\ UNCHANGED <<last, emitted>>
    /\ UNCHANGED <<run_vars, shared_vars, main_vars, file_etag, extant, validating,
                   err_was_none, trace, call_vars>>

AfterValidation(a) == IF Kind(a) = "dandiset.yaml" THEN "metadata" ELSE "digest"

\* JobValidate without `raise UploadError("failed validation")`
JobValidateFlagsOnly(a) ==
    /\ pc[a] = "validate"
    /\ IF IsLocalAsset(Kind(a)) /\ validation # "skip"
       THEN /\ Call(a, "get_validation_errors")
            /\ \E n \in 0..1 :
                 /\ validate_ok' = IF n > 0 /\ validation = "require" THEN FALSE
                                   ELSE validate_ok
                 /\ Yield(a, Status(IF n > 0 THEN "errors" ELSE "validated"))
            /\ Goto(a, AfterValidation(a))
            /\ NoThrow
       ELSE /\ Goto(a, AfterValidation(a))
            /\ NoThrow
            /\ UNCHANGED <<validate_ok, last, emitted, calls>>
    /\ UNCHANGED <<run_vars, process_paths, uploaded_paths, upload_err, main_vars,
                   file_etag, extant, validating, err_was_none, trace, call_vars>>

\* JobValidate without the test `validation == "require"`
JobValidateAlwaysBlocks(a) ==
    /\ pc[a] = "validate"
    /\ IF IsLocalAsset(Kind(a)) /\ validation # "skip"
       THEN /\ Call(a, "get_validation_errors")
            /\ \E n \in 0..1 :
                 IF n > 0
                 THEN /\ validate_ok' = FALSE
                      /\ Throw(a, UploadError(a, "failed validation"))
                      /\ Yield(a, Status("errors"))
                 ELSE /\ Goto(a, AfterValidation(a))
                      /\ Yield(a, Status("validated"))
                      /\ NoThrow
                      /\ UNCHANGED validate_ok
       ELSE /\ Goto(a, AfterValidation(a))
            /\ NoThrow
            /\ UNCHANGED <<validate_ok, last, emitted, calls>>
    /\ UNCHANGED <<run_vars, process_paths, uploaded_paths, upload_err, main_vars,
                   file_etag, extant, validating, err_was_none, trace, call_vars>>

\* the validation block; n is len(validation_errors)
JobValidate(a) ==
    /\ pc[a] = "validate"
    /\ IF IsLocalAsset(Kind(a)) /\ validation # "skip"
       THEN /\ Call(a, "get_validation_errors")
            /\ \E n \in 0..1 :
                 IF n > 0
                 THEN IF validation = "require"
                      THEN /\ validate_ok' = FALSE
                           /\ Throw(a, UploadError(a, "failed validation"))
                           /\ Yield(a, Status("errors"))
                      ELSE /\ Goto(a, AfterValidation(a))
                           /\ Yield(a, Status("errors"))
                           /\ NoThrow
                           /\ UNCHANGED validate_ok
                 ELSE /\ Goto(a, AfterValidation(a))
                      /\ Yield(a, Status("validated"))
                      /\ NoThrow
                      /\ UNCHANGED validate_ok
       ELSE /\ Goto(a, AfterValidation(a))
            /\ NoThrow
            /\ UNCHANGED <<validate_ok, last, emitted, calls>>
    /\ UNCHANGED <<run_vars, process_paths, uploaded_paths, upload_err, main_vars,
                   file_etag, extant, validating, err_was_none, trace, call_vars>>

\* JobMetadata updating the remote metadata whether requested or not
JobMetadataAlwaysUpdates(a) ==
    /\ pc[a] = "metadata"
    /\ Call(a, "set_raw_metadata")
    /\ Yield(a, Status("updated metadata"))
    /\ Goto(a, "finally")
    /\ NoThrow
    /\ UNCHANGED <<run_vars, shared_vars, main_vars, file_etag, extant, validating,
                   err_was_none, trace, call_vars>>

\* the special handling of dandiset.yaml; set_raw_metadata is a request to the
\* server and may raise
JobMetadata(a) ==
    /\ pc[a] = "metadata"
    /\ IF upload_dandiset_metadata
       THEN /\ Call(a, "set_raw_metadata")
            /\ \/ /\ Yield(a, Status("updated metadata"))
                  /\ Goto(a, "finally")
                  /\ NoThrow
               \/ /\ Yield(a, Status("updating metadata"))
                  /\ Throw(a, Raise(a, Exception("HTTPError", "set_raw_metadata failed")))
       ELSE /\ Yield(a, skip_file("should be edited online"))
            /\ Goto(a, "finally")
            /\ NoThrow
            /\ UNCHANGED calls
    /\ UNCHANGED <<run_vars, shared_vars, main_vars, file_etag, extant, validating,
                   err_was_none, trace, call_vars>>

\* JobDigest leaving the digest for later
JobDigestDeferred(a) ==
    /\ pc[a] = "digest"
    /\ file_etag' = [file_etag EXCEPT ![a] = None]
    /\ Goto(a, "lookup")
    /\ NoThrow
    /\ UNCHANGED <<run_vars, shared_vars, main_vars, extant, validating,
                   err_was_none, last, emitted, calls, trace, call_vars>>

\* "Compute checksums"
JobDigest(a) ==
    /\ pc[a] = "digest"
    /\ IF IsZarrAsset(Kind(a))
       THEN /\ file_etag' = [file_etag EXCEPT ![a] = None]
            /\ Goto(a, "lookup")
            /\ NoThrow
            /\ UNCHANGED <<last, emitted, calls>>
       ELSE /\ Call(a, "get_digest")
            /\ Yield(a, Status("digesting"))
            /\ \/ /\ file_etag' = [file_etag EXCEPT ![a] = Some(Digest(dandi_files[a].digest))]
                  /\ Goto(a, "lookup")
                  /\ NoThrow
               \/ /\ Throw(a, UploadError(a, "failed to compute digest"))
                  /\ UNCHANGED file_etag
    /\ UNCHANGED <<run_vars, shared_vars, main_vars, extant, validating,
                   err_was_none, trace, call_vars>>

\* JobLookupAbsent applying the error and skip policies to a missing asset
JobLookupAbsentConsults(a) ==
    /\ pc[a] = "lookup"
    /\ calls' = [calls EXCEPT ![a] = @ \cup {"get_asset_by_path", "check_replace_asset"}]
    /\ extant' = [extant EXCEPT ![a] = "None"]
    /\ IF existing = "error"
       THEN /\ Throw(a, Raise(a, Exception("FileExistsError", "exists")))
            /\ UNCHANGED <<last, emitted>>
       ELSE /\ Goto(a, IF existing = "skip" THEN "finally" ELSE "extract")
            /\ NoThrow
            /\ UNCHANGED <<last, emitted>>
    /\ UNCHANGED <<run_vars, shared_vars, main_vars, file_etag, validating,
                   err_was_none, trace, call_vars>>

\* get_asset_by_path answers NotFoundError
JobLookupAbsent(a) ==
    /\ pc[a] = "lookup"
    /\ Call(a, "get_asset_by_path")
    /\ extant' = [extant EXCEPT ![a] = "None"]
    /\ Goto(a, "extract")
    /\ NoThrow
    /\ UNCHANGED <<run_vars, shared_vars, main_vars, file_etag, validating,
                   err_was_none, last, emitted, trace, call_vars>>

\* Decided without `if not replace: return`
DecidedNoReturn(a, r) ==
    IF r.raise # None
    THEN /\ Throw(a, Raise(a, Get(r.raise)))
         /\ UNCHANGED <<last, emitted>>
    ELSE /\ Yield(a, r.out)
         /\ Goto(a, "extract")
         /\ NoThrow

\* what process_path does with the answer r of check_replace_asset
Decided(a, r) ==
    IF r.raise # None
    THEN /\ Throw(a, Raise(a, Get(r.raise)))
         /\ UNCHANGED <<last, emitted>>
    ELSE /\ Yield(a, r.out)
         /\ Goto(a, IF r.replace THEN "extract" ELSE "finally")
         /\ NoThrow

\* get_asset_by_path answers an asset: the else clause of the lookup
JobLookupFound(a) ==
    /\ pc[a] = "lookup"
    /\ calls' = [calls EXCEPT ![a] = @ \cup {"get_asset_by_path", "check_replace_asset"}]
    /\ extant' = [extant EXCEPT ![a] = "asset"]
    /\ \E metadata \in RemoteMetadata :
          Decided(a, check_replace_asset(dandi_files[a], metadata, existing, file_etag[a]))
    /\ UNCHANGED <<run_vars, shared_vars, main_vars, file_etag, validating,
                   err_was_none, trace, call_vars>>

\* JobExtract going on to the transfer when get_metadata raised
JobExtractGoesOn(a) ==
    /\ pc[a] = "extract"
    /\ Call(a, "get_metadata")
    /\ Yield(a, Status("uploading"))
    /\ validating' = [validating EXCEPT ![a] = FALSE]
    /\ Goto(a, "upload")
    /\ \/ NoThrow
       \/ /\ thrown' = [thrown EXCEPT
                 ![a] = Some(UploadError(a, "failed to extract metadata"))]
          /\ UNCHANGED exc
    /\ UNCHANGED <<run_vars, shared_vars, main_vars, file_etag, extant,
                   err_was_none, trace, call_vars>>

\* "Extract metadata", then `yield {"status": "uploading"}`
JobExtract(a) ==
    /\ pc[a] = "extract"
    /\ Call(a, "get_metadata")
    /\ \/ /\ Yield(a, Status("uploading"))
          /\ validating' = [validating EXCEPT ![a] = FALSE]
          /\ Goto(a, "upload")
          /\ NoThrow
       \/ /\ Throw(a, UploadError(a, "failed to extract metadata"))
          /\ Yield(a, Status("extracting metadata"))
          /\ UNCHANGED validating
    /\ UNCHANGED <<run_vars, shared_vars, main_vars, file_etag, extant,
                   err_was_none, trace, call_vars>>

\* one turn of `for r in dfile.iter_upload(...)` with r["status"] == "uploading"
JobUploading(a) ==
    /\ pc[a] = "upload"
    /\ TurnAllowed(a)
    /\ Call(a, "iter_upload")
    /\ \E current \in 1..dandi_files[a].size :
          /\ uploaded_paths' = [uploaded_paths EXCEPT
                                  ![a] = Some(Uploaded(current, Entry(a).errors))]
          /\ Trace(a, Event("uploading", Some(current)), <<Status("uploading")>>)
    /\ Yield(a, Status("uploading"))
    /\ NoThrow
    /\ UNCHANGED <<run_vars, process_paths, upload_err, validate_ok, main_vars, pc,
                   file_etag, extant, validating, err_was_none, call_vars>>

\* JobPostValidating without the test of the flag `validating`
JobPostValidatingRepeats(a) ==
    /\ pc[a] = "upload"
    /\ TurnAllowed(a)
    /\ Call(a, "iter_upload")
    /\ Yield(a, Status("post-validating"))
    /\ Trace(a, Event("post-validating", None), <<Status("post-validating")>>)
    /\ validating' = [validating EXCEPT ![a] = TRUE]
    /\ NoThrow
    /\ UNCHANGED <<run_vars, shared_vars, main_vars, pc, file_etag, extant,
                   err_was_none, call_vars>>

\* one turn with r["status"] == "post-validating"
JobPostValidating(a) ==
    /\ pc[a] = "upload"
    /\ TurnAllowed(a)
    /\ Call(a, "iter_upload")
    /\ IF ~validating[a]
       THEN /\ Yield(a, Status("post-validating"))
            /\ Trace(a, Event("post-validating", None), <<Status("post-validating")>>)
            /\ validating' = [validating EXCEPT ![a] = TRUE]
       ELSE /\ Trace(a, Event("post-validating", None), <<>>)
            /\ UNCHANGED <<last, emitted, validating>>
    /\ NoThrow
    /\ UNCHANGED <<run_vars, shared_vars, main_vars, pc, file_etag, extant,
                   err_was_none, call_vars>>

\* one turn with any other status
JobUploadOther(a) ==
    /\ pc[a] = "upload"
    /\ TurnAllowed(a)
    /\ Call(a, "iter_upload")
    /\ Yield(a, Status("producing asset"))
    /\ Trace(a, Event("producing asset", None), <<Status("producing asset")>>)
    /\ NoThrow
    /\ UNCHANGED <<run_vars, shared_vars, main_vars, pc, file_etag, extant,
                   validating, err_was_none, call_vars>>

\* iter_upload raises
JobUploadFails(a) ==
    /\ pc[a] = "upload"
    /\ Call(a, "iter_upload")
    /\ Throw(a, Raise(a, Exception("Exception", "upload failed")))
    /\ UNCHANGED <<run_vars, shared_vars, main_vars, file_etag, extant, validating,
                   err_was_none, last, emitted, trace, call_vars>>

\* the terminal status that iter_upload yields as its last event
TransferTerminal == Status("done")

\* the last turn of the loop and its end: iter_upload yields its terminal
\* status, which is forwarded as any other event, and is exhausted; then
\* `yield {"status": "done"}`
JobDone(a) ==
    /\ pc[a] = "upload"
    /\ Call(a, "iter_upload")
    /\ Trace(a, Event(TransferTerminal.status, None), <<TransferTerminal>>)
    /\ last' = [last EXCEPT ![a] = Status("done")]
    /\ emitted' = [emitted EXCEPT ![a] = Report(Report(@, TransferTerminal), Status("done"))]
    /\ Goto(a, "finally")
    /\ NoThrow
    /\ UNCHANGED <<run_vars, shared_vars, main_vars, file_etag, extant, validating,
                   err_was_none, call_vars>>

\* the test `upload_err is None` of the handler
JobExceptTest(a) ==
    /\ pc[a] = "except"
    /\ err_was_none' = [err_was_none EXCEPT ![a] = (upload_err = None)]
    /\ Goto(a, "handle")
    /\ NoThrow
    /\ UNCHANGED <<run_vars, shared_vars, main_vars, file_etag, extant, validating,
                   last, emitted, calls, trace, call_vars>>

\* the assignment to upload_err when the test held
FirstError(a) == IF err_was_none[a] THEN exc[a] ELSE upload_err

\* JobExceptHandle re-raising in every mode
JobExceptHandleAlwaysRaises(a) ==
    /\ pc[a] = "handle"
    /\ upload_err' = FirstError(a)
    /\ Goto(a, "finally")
    /\ UNCHANGED <<run_vars, process_paths, uploaded_paths, validate_ok, main_vars,
                   file_etag, extant, validating, exc, err_was_none, last, emitted, calls,
                   thrown, trace, call_vars>>

\* JobExceptHandle without `if devel_debug: raise`
JobExceptHandleNeverRaises(a) ==
    /\ pc[a] = "handle"
    /\ upload_err' = FirstError(a)
    /\ uploaded_paths' = [uploaded_paths EXCEPT
          ![a] = Some(Uploaded(Entry(a).size,
                               Append(Entry(a).errors, Get(exc[a]).message)))]
    /\ Yield(a, error_file(Get(exc[a]).message))
    /\ exc' = [exc EXCEPT ![a] = None]
    /\ Goto(a, "finally")
    /\ UNCHANGED <<run_vars, process_paths, validate_ok, main_vars, file_etag, extant,
                   validating, err_was_none, calls, thrown, trace, call_vars>>

\* the rest of the handler: `upload_err = exc`, then raise or record and yield
JobExceptHandle(a) ==
    /\ pc[a] = "handle"
    /\ upload_err' = FirstError(a)
    /\ IF devel_debug
       THEN UNCHANGED <<uploaded_paths, last, emitted, exc>>
       ELSE /\ uploaded_paths' = [uploaded_paths EXCEPT
                  ![a] = Some(Uploaded(Entry(a).size,
                                       Append(Entry(a).errors, Get(exc[a]).message)))]
            /\ Yield(a, error_file(Get(exc[a]).message))
            /\ exc' = [exc EXCEPT ![a] = None]
    /\ Goto(a, "finally")
    /\ UNCHANGED <<run_vars, process_paths, validate_ok, main_vars, file_etag, extant,
                   validating, err_was_none, calls, thrown, trace, call_vars>>

\* a dispatch loop with `except Exception`
CaughtByLoopAll(e) == TRUE

\* `except ValueError as exc` of the dispatch loop catches the exception e
CaughtByLoop(e) == e.type = "ValueError"

\* JobFinally without process_paths.remove(strpath)
JobFinallyKeeps(a) ==
    /\ pc[a] = "finally"
    /\ Goto(a, "end")
    /\ IF ~devel_debug
       THEN UNCHANGED <<main_pc, raised, last, emitted>>
       ELSE IF exc[a] = None
       THEN /\ main_pc' = "loop"
            /\ UNCHANGED <<raised, last, emitted>>
       ELSE IF CaughtByLoop(Get(exc[a]))
       THEN /\ main_pc' = "loop"
            /\ Yield(a, error_file(Get(exc[a]).message))
            /\ UNCHANGED raised
       ELSE /\ main_pc' = "raised"
            /\ raised' = exc[a]
            /\ UNCHANGED <<last, emitted>>
    /\ file_etag' = [file_etag EXCEPT ![a] = None]
    /\ extant' = [extant EXCEPT ![a] = "unset"]
    /\ validating' = [validating EXCEPT ![a] = FALSE]
    /\ err_was_none' = [err_was_none EXCEPT ![a] = FALSE]
    /\ exc' = [exc EXCEPT ![a] = None]
    /\ UNCHANGED <<run_vars, shared_vars, idx, dispatched,
                   deleted, calls, thrown, trace, call_vars>>

\* finally: process_paths.remove(strpath). In serial mode the generator runs on
\* the dispatching thread, which goes on from `for v in process_path(dfile)`
JobFinally(a) ==
    /\ pc[a] = "finally"
    /\ process_paths' = process_paths \ {a}
    /\ Goto(a, "end")
    /\ IF ~devel_debug
       THEN UNCHANGED <<main_pc, raised, last, emitted>>
       ELSE IF exc[a] = None
       THEN /\ main_pc' = "loop"
            /\ UNCHANGED <<raised, last, emitted>>
       ELSE IF CaughtByLoop(Get(exc[a]))
       THEN /\ main_pc' = "loop"
            /\ Yield(a, error_file(Get(exc[a]).message))
            /\ UNCHANGED raised
       ELSE /\ main_pc' = "raised"
            /\ raised' = exc[a]
            /\ UNCHANGED <<last, emitted>>
    \* the generator is finished and its frame, with its locals, is gone
    /\ file_etag' = [file_etag EXCEPT ![a] = None]
    /\ extant' = [extant EXCEPT ![a] = "unset"]
    /\ validating' = [validating EXCEPT ![a] = FALSE]
    /\ err_was_none' = [err_was_none EXCEPT ![a] = FALSE]
    /\ exc' = [exc EXCEPT ![a] = None]
    /\ UNCHANGED <<run_vars, uploaded_paths, upload_err, validate_ok, idx, dispatched,
                   deleted, calls, thrown, trace, call_vars>>

----------------------------------------------------------------------------
(* The end of upload() *)

\* the for loop is over and `with out:` is left, which waits for the generators
\* given to the pool
ExitLoop ==
    /\ main_pc = "loop"
    /\ idx > Len(dandi_files)
    /\ \A a \in Files : pc[a] \in {"new", "end"}
    /\ main_pc' = "final"
    /\ UNCHANGED <<run_vars, shared_vars, idx, raised, dispatched, deleted, job_vars,
                   call_vars>>

\* Finalize without `raise upload_err`
FinalizeSwallows ==
    /\ main_pc = "final"
    /\ main_pc' = IF sync THEN "sync" ELSE "returned"
    /\ UNCHANGED <<run_vars, shared_vars, idx, raised, dispatched, deleted, job_vars,
                   call_vars>>

\* Finalize with the block `if sync:` before `raise upload_err`
FinalizeSyncsAnyway ==
    /\ main_pc = "final"
    /\ IF sync
       THEN /\ main_pc' = "sync"
            /\ UNCHANGED raised
       ELSE IF upload_err # None
       THEN /\ main_pc' = "raised"
            /\ raised' = upload_err
       ELSE /\ main_pc' = "returned"
            /\ UNCHANGED raised
    /\ UNCHANGED <<run_vars, shared_vars, idx, dispatched, deleted, job_vars, call_vars>>

\* `if upload_err is not None: ... raise upload_err`, then `if sync:`
Finalize ==
    /\ main_pc = "final"
    /\ IF upload_err # None
       THEN /\ main_pc' = "raised"
            /\ raised' = upload_err
       ELSE /\ main_pc' = IF sync THEN "sync" ELSE "returned"
            /\ UNCHANGED raised
    /\ UNCHANGED <<run_vars, shared_vars, idx, dispatched, deleted, job_vars, call_vars>>

----------------------------------------------------------------------------
(* The Delete-Sync pass. A path is a sequence of characters. *)

Slash == "/"
\* str.startswith
StartsWith(s, prefix) ==
    /\ Len(prefix) <= Len(s)
    /\ SubSeq(s, 1, Len(prefix)) = prefix

\* dandi.utils.path_is_subpath: path lies below the directory prefix
path_is_subpath(path, prefix) ==
    /\ path # prefix
    /\ StartsWith(path, IF prefix # <<>> /\ prefix[Len(prefix)] = Slash
                        THEN prefix ELSE prefix \o <<Slash>>)

\* reduce(os.path.commonprefix, relpaths): of one path it is the path itself;
\* of more, os.path.commonprefix, which takes one argument, is called with two
\* and raises TypeError (None here)
path_prefix(relpaths) == IF Len(relpaths) = 1 THEN Some(relpaths[1]) ELSE None

\* remote_dandiset.get_assets_with_path_prefix
get_assets_with_path_prefix(prefix) == {p \in remote_assets : StartsWith(p, prefix)}

\* the list the loop over the remote assets builds
to_delete(relpaths) ==
    {p \in get_assets_with_path_prefix(Get(path_prefix(relpaths))) :
        /\ \E i \in 1..Len(relpaths) :
              relpaths[i] = <<>> \/ path_is_subpath(p, relpaths[i])
        /\ p \notin local_exists}

\* the block `if sync:`
SyncPass ==
    /\ main_pc = "sync"
    /\ IF path_prefix(paths) = None
       THEN /\ main_pc' = "raised"
            /\ raised' = Some(Raise(0, Exception("TypeError",
                     "commonprefix() takes 1 positional argument but 2 were given")))
            /\ UNCHANGED deleted
       ELSE /\ main_pc' = "returned"
            /\ deleted' = IF to_delete(paths) # {} /\ confirm THEN to_delete(paths) ELSE {}
            /\ UNCHANGED raised
    /\ UNCHANGED <<run_vars, shared_vars, idx, dispatched, job_vars, call_vars>>

----------------------------------------------------------------------------
(* Specifications *)

\* the steps of the generator of file a, but for the turns of the transfer loop
\* that stay in it
JobAdvance(a) ==
    \/ PoolStart(a)
    \/ JobSize(a)
    \/ JobValidate(a)
    \/ JobMetadata(a)
    \/ JobDigest(a)
    \/ JobLookupAbsent(a)
    \/ JobLookupFound(a)
    \/ JobExtract(a)
    \/ JobUploadFails(a)
    \/ JobDone(a)
    \/ JobExceptTest(a)
    \/ JobExceptHandle(a)
    \/ JobFinally(a)

JobStep(a) ==
    \/ JobAdvance(a)
    \/ JobUploading(a)
    \/ JobPostValidating(a)
    \/ JobUploadOther(a)

Next ==
    \/ Dispatch
    \/ ExitLoop
    \/ Finalize
    \/ SyncPass
    \/ \E a \in Files : JobStep(a)

\* the state when the dispatch loop is entered
InitRun ==
    /\ process_paths = {}
    /\ uploaded_paths = [a \in Files |-> None]
    /\ upload_err = None
    /\ validate_ok = TRUE
    /\ main_pc = "loop"
    /\ idx = 1
    /\ raised = None
    /\ deleted = {}
    /\ dispatched = <<>>
    /\ pc = [a \in Files |-> "new"]
    /\ file_etag = [a \in Files |-> None]
    /\ extant = [a \in Files |-> "unset"]
    /\ validating = [a \in Files |-> FALSE]
    /\ exc = [a \in Files |-> None]
    /\ err_was_none = [a \in Files |-> FALSE]
    /\ last = [a \in Files |-> Status("")]
    /\ calls = [a \in Files |-> {}]
    /\ thrown = [a \in Files |-> None]
    /\ emitted = [a \in Files |-> <<>>]

\* the events of the transfers are not recorded
Untraced == trace = [a \in Files |-> None]

\* the files find_dandi_files may give: a file has a modification time, a content
\* digest and a size; a Zarr has no digest of its own and dandiset.yaml is not
\* compared at all
LocalFiles ==
    [kind : {"file"}, modified : Times, digest : DigestValues, size : 1..MaxBytes]
    \cup [kind : {"zarr"}, modified : {1}, digest : {1}, size : 1..MaxBytes]
    \cup [kind : {"dandiset.yaml"}, modified : {1}, digest : {1}, size : {1}]

\* the files of a batch: a dandiset.yaml or a plain file, all alike in their
\* attributes
BatchFiles == [kind : {"dandiset.yaml", "file"}, modified : {1}, digest : {1}, size : {1}]

\* at most one dandiset.yaml is among the files
FileLists(n, D) == {fs \in [1..n -> D] :
                       Cardinality({a \in 1..n : fs[a].kind = "dandiset.yaml"}) <= 1}

\* the input paths "", "a" and "ab" and the asset paths "a/b", "ab/a" and "b"
RelPaths == {<<>>, <<"a">>, <<"a", "b">>}
AssetPaths == {<<"a", Slash, "b">>, <<"a", "b", Slash, "a">>, <<"b">>}
PathLists == UNION {[1..n -> RelPaths] : n \in 1..MaxPaths}

\* a run without the pass, and runs with it: over the whole dandiset with the
\* deletion confirmed or declined, and over several paths
RunSyncs ==
    {[sync |-> FALSE, paths |-> <<<<>>>>, remote |-> {}, local |-> {}, confirm |-> FALSE]}
    \cup [sync : {TRUE}, paths : {<<<<>>>>}, remote : {{<<"a", Slash, "b">>, <<"b">>}},
          local : {{<<"b">>}}, confirm : BOOLEAN]
    \cup [sync : {TRUE}, paths : [1..MaxPaths -> {<<"a">>}],
          remote : {{<<"a", Slash, "b">>}}, local : {{}}, confirm : {TRUE}]

\* the runs of a batch: without the pass, or over the whole dandiset with the
\* deletion confirmed
BatchSyncs == {r \in RunSyncs : ~r.sync \/ (Len(r.paths) = 1 /\ r.confirm)}

InitSyncArgs(S) ==
    \E r \in S :
        /\ sync = r.sync
        /\ paths = r.paths
        /\ remote_assets = r.remote
        /\ local_exists = r.local
        /\ confirm = r.confirm

\* a batch of one file under every combination of the options
InitJob ==
    /\ existing \in Policies \cup {BadPolicy}
    /\ validation \in Validations
    /\ devel_debug \in BOOLEAN
    /\ jobs = None
    /\ upload_dandiset_metadata \in BOOLEAN
    /\ dandi_files \in FileLists(1, LocalFiles)
    /\ InitSyncArgs(RunSyncs)
    /\ InitRun
    /\ Untraced
    /\ args = None
    /\ result = None

SpecJob == InitJob /\ [][Next]_vars

\* a batch of up to MaxFiles files on a pool of up to MaxJobs workers
Init ==
    /\ existing \in {"refresh", BadPolicy}
    /\ validation \in Validations
    /\ devel_debug \in BOOLEAN
    /\ jobs \in {Some(k) : k \in 1..MaxJobs}
    /\ upload_dandiset_metadata = FALSE
    /\ dandi_files \in UNION {FileLists(n, BatchFiles) : n \in 1..MaxFiles}
    /\ InitSyncArgs(BatchSyncs)
    /\ InitRun
    /\ Untraced
    /\ args = None
    /\ result = None

Spec == Init /\ [][Next]_vars

\* the threads run: the dispatching thread and every worker of the pool take
\* their next step, and a transfer ends (iter_upload is exhausted or raises)
Fairness ==
    /\ WF_vars(Dispatch)
    /\ WF_vars(ExitLoop)
    /\ WF_vars(Finalize)
    /\ WF_vars(SyncPass)
    /\ \A a \in 1..MaxFiles : WF_vars(a \in Files /\ JobAdvance(a))

FairSpec == Spec /\ Fairness

\* one application of check_replace_asset to a local asset that is compared, with
\* the digest process_path passes for it
DecideArgs ==
    {x \in [remote_asset : RemoteMetadata, local_etag : {None} \cup {Some(Digest(v)) : v \in DigestValues}] :
        x.local_etag = IF IsZarrAsset(dandi_files[1].kind) THEN None
                       ELSE Some(Digest(dandi_files[1].digest))}

InitDecide ==
    /\ existing \in Policies \cup {BadPolicy}
    /\ validation = "require"
    /\ devel_debug = FALSE
    /\ jobs = None
    /\ upload_dandiset_metadata = FALSE
    /\ dandi_files \in FileLists(1, {f \in LocalFiles : IsLocalAsset(f.kind) /\ f.size = 1})
    /\ InitSyncArgs({r \in RunSyncs : ~r.sync})
    /\ InitRun
    /\ Untraced
    /\ args \in {Some(x) : x \in DecideArgs}
    /\ result = None

Decide ==
    /\ result = None
    /\ result' = Some(check_replace_asset(dandi_files[1], Get(args).remote_asset,
                                          existing, Get(args).local_etag))
    /\ UNCHANGED <<run_vars, shared_vars, main_vars, job_vars, args>>

SpecDecide == InitDecide /\ [][Decide]_vars

\* the Delete-Sync pass alone, after a batch of one skipped dandiset.yaml that
\* ended without an error, for every list of input paths, set of remote assets,
\* set of local files and answer
InitSync ==
    /\ existing = "refresh"
    /\ validation = "require"
    /\ devel_debug = FALSE
    /\ jobs = None
    /\ upload_dandiset_metadata = FALSE
    /\ dandi_files \in FileLists(1, {f \in LocalFiles : f.kind = "dandiset.yaml"})
    /\ sync = TRUE
    /\ paths \in PathLists
    /\ remote_assets \in SUBSET AssetPaths
    /\ local_exists \in SUBSET AssetPaths
    /\ confirm \in BOOLEAN
    /\ process_paths = {}
    /\ uploaded_paths = [a \in Files |-> None]
    /\ upload_err = None
    /\ validate_ok = TRUE
    /\ main_pc = "sync"
    /\ idx = 2
    /\ raised = None
    /\ deleted = {}
    /\ dispatched = <<1>>
    /\ pc = [a \in Files |-> "end"]
    /\ file_etag = [a \in Files |-> None]
    /\ extant = [a \in Files |-> "unset"]
    /\ validating = [a \in Files |-> FALSE]
    /\ exc = [a \in Files |-> None]
    /\ err_was_none = [a \in Files |-> FALSE]
    /\ last = [a \in Files |-> skip_file("should be edited online")]
    /\ calls = [a \in Files |-> {"size"}]
    /\ thrown = [a \in Files |-> None]
    /\ emitted = [a \in Files |-> <<skip_file("should be edited online")>>]
    /\ Untraced
    /\ args = None
    /\ result = None

SpecSync == InitSync /\ [][SyncPass]_vars

\* the job of one file or Zarr that is transferred, with the events of the
\* transfer recorded
InitTransfer ==
    /\ existing = "force"
    /\ validation = "skip"
    /\ devel_debug \in BOOLEAN
    /\ jobs = None
    /\ upload_dandiset_metadata = FALSE
    /\ dandi_files \in FileLists(1, {f \in LocalFiles : IsLocalAsset(f.kind) /\ f.modified = 1
                                                         /\ f.digest = 1})
    /\ InitSyncArgs(BatchSyncs)
    /\ InitRun
    /\ trace = [a \in Files |-> Some([received |-> <<>>, forwarded |-> <<>>])]
    /\ args = None
    /\ result = None

SpecTransfer == InitTransfer /\ [][Next]_vars

----------------------------------------------------------------------------
(* The decisions of check_replace_asset, stated from the arguments of the call *)

TheFile == dandi_files[1]
TheRemote == Get(args).remote_asset
TheDecision == Get(result)

\* the remote records, for the algorithm of the local digest, the local value
DigestsEqual ==
    /\ "dandi:dandi-etag" \in DOMAIN TheRemote.digest
    /\ TheRemote.digest["dandi:dandi-etag"] = TheFile.digest
RemoteMtimePresent == TheRemote.blobDateModified # None
RemoteMtime == Get(TheRemote.blobDateModified)[2]

IsSkip(r) == r.raise = None /\ ~r.replace /\ r.out.status = "skipped"
IsReplace(r) == r.raise = None /\ r.replace

\* C1: under policy refresh a compared asset with a remote record is skipped when
\* the digests are equal, else skipped when the remote mtime is present and not
\* older than the local one, else replaced
C1_RefreshDecision ==
    (result # None /\ existing = "refresh" /\ TheFile.kind = "file") =>
        IF DigestsEqual THEN IsSkip(TheDecision)
        ELSE IF RemoteMtimePresent /\ RemoteMtime >= TheFile.modified
        THEN IsSkip(TheDecision)
        ELSE IsReplace(TheDecision)

\* digests differ, no remote mtime: Replace
C1_Witness ==
    /\ result # None /\ existing = "refresh" /\ TheFile.kind = "file"
    /\ ~DigestsEqual /\ ~RemoteMtimePresent
    /\ IsReplace(TheDecision)

\* C2: under policy overwrite a compared asset with a remote record is skipped
\* exactly when the remote digest of the same algorithm equals the local digest,
\* and replaced in every other case, whatever the mtimes
C2_OverwriteDecision ==
    (result # None /\ existing = "overwrite" /\ TheFile.kind = "file") =>
        /\ IsSkip(TheDecision) <=> DigestsEqual
        /\ IsReplace(TheDecision) <=> ~DigestsEqual

\* the remote has the local value under another algorithm only, and is newer:
\* Replace
C2_Witness ==
    /\ result # None /\ existing = "overwrite" /\ TheFile.kind = "file"
    /\ DOMAIN TheRemote.digest = {"dandi:sha2-256"}
    /\ TheRemote.digest["dandi:sha2-256"] = TheFile.digest
    /\ RemoteMtimePresent /\ RemoteMtime > TheFile.modified
    /\ IsReplace(TheDecision)

\* C5: under policy force every asset with a remote record is replaced
C5_ForceDecision ==
    (result # None /\ existing = "force") => IsReplace(TheDecision)

\* equal digests and a newer remote: still Replace
C5_Witness ==
    /\ result # None /\ existing = "force" /\ TheFile.kind = "file"
    /\ DigestsEqual /\ RemoteMtimePresent /\ RemoteMtime > TheFile.modified
    /\ IsReplace(TheDecision)

----------------------------------------------------------------------------
(* The job of one file *)

Consulted(a) == "check_replace_asset" \in calls[a]
ExtractedOrTransferred(a) == calls[a] \cap {"get_metadata", "iter_upload"} # {}
Errors(a) == IF uploaded_paths[a] = None THEN <<>> ELSE Get(uploaded_paths[a]).errors
ExistsMessages ==
    {"exists (same)", "exists (newer)", "exists (older)", "exists (diff)",
     "exists (no mtime)"}

C4_SkipPolicySkips ==
    \A a \in Files :
        (existing = "skip" /\ Kind(a) = "file" /\ Consulted(a)) =>
            /\ pc[a] \in {"finally", "end"}
            /\ last[a].status = "skipped"
            /\ last[a].message \in ExistsMessages
            /\ ~ExtractedOrTransferred(a)
            /\ thrown[a] = None
            /\ uploaded_paths[a] = None

\* a remote older than the local file is skipped all the same
C4_Witness ==
    /\ existing = "skip" /\ Kind(1) = "file" /\ pc[1] = "end"
    /\ last[1] = skip_file("exists (older)")
    /\ main_pc = "returned"

\* C6: with no remote record at the path the decision is not consulted and the
\* asset goes on to extraction and then transfer, under every policy
C6_AbsentCreates ==
    \A a \in Files :
        /\ extant[a] = "None" =>
              /\ ~Consulted(a)
              /\ pc[a] = "extract" \/ "get_metadata" \in calls[a]
              /\ pc[a] \in {"extract", "upload", "except", "handle", "finally"}
              /\ last[a].status # "skipped"
              /\ thrown[a] # None =>
                    Get(thrown[a]).message \in {"failed to extract metadata", "upload failed"}
        /\ ("get_asset_by_path" \in calls[a] /\ ~Consulted(a) /\ pc[a] = "end"
                /\ thrown[a] = None) => last[a].status = "done"

\* the transfer of a new asset runs under the error policy
C6_Witness ==
    /\ existing = "error" /\ extant[1] = "None" /\ pc[1] = "upload"
    /\ uploaded_paths[1] # None

\* C7: a Zarr with a remote record is replaced with the reason "exists -
\* reuploading" under every policy, and no digest is computed for it
C7_ZarrReplaces ==
    \A a \in Files :
        Kind(a) = "zarr" =>
            /\ "get_digest" \notin calls[a]
            /\ file_etag[a] = None
            /\ Consulted(a) =>
                  /\ pc[a] = "extract" \/ "get_metadata" \in calls[a]
                  /\ thrown[a] # None =>
                        Get(thrown[a]).message \in {"failed to extract metadata", "upload failed"}
            /\ (pc[a] = "extract" /\ extant[a] = "asset") =>
                  last[a] = Message("exists - reuploading")

\* a Zarr with a remote record is transferred under the error policy
C7_Witness ==
    /\ Kind(1) = "zarr" /\ existing = "error"
    /\ extant[1] = "asset" /\ pc[1] = "upload" /\ uploaded_paths[1] # None

----------------------------------------------------------------------------
(* The batch *)

InFlightCount == Cardinality({a \in Files : InFlight(a)})

\* C8: with jobs = k at most k generators are in flight at any time, a generator
\* waiting for a worker is started later, and the dispatch loop reaches every
\* file it stands before
C8_BoundedConcurrency ==
    /\ [](jobs # None => InFlightCount <= Get(jobs))
    /\ \A a \in 1..MaxFiles :
          (a \in Files /\ pc[a] = "queued") ~> (a \in Files /\ InFlight(a))
    /\ \A a \in 1..MaxFiles :
          (a \in Files /\ main_pc = "loop" /\ idx = a) ~> (a \in Files /\ pc[a] # "new")

\* one worker: a generator is in flight and another waits for it
C8_Witness ==
    /\ jobs = Some(1)
    /\ \E a, b \in Files : InFlight(a) /\ pc[b] = "queued"

InOrder(n) == [i \in 1..n |-> i]

\* C9 as the specification states it: when upload() ends every file has been
\* dispatched exactly once, in the order presented
C9_Original ==
    /\ dispatched = InOrder(idx - 1)
    /\ main_pc \in {"returned", "raised"} => dispatched = InOrder(Len(dandi_files))

\* C9 as amended: files are dispatched at most once and in the order presented;
\* every file is dispatched unless serial mode ends the run on a job error that
\* the loop does not catch, and then exactly the files up to the failing one
\* have been dispatched
C9_DispatchOnceInOrder ==
    /\ dispatched = InOrder(idx - 1)
    /\ \A a \in Files : pc[a] # "new" <=> a < idx
    /\ main_pc \in {"returned", "raised"} =>
          \/ dispatched = InOrder(Len(dandi_files))
          \/ /\ devel_debug
             /\ raised # None
             /\ Get(raised).type # "ValueError"
             /\ dispatched = InOrder(Get(raised).job)
    /\ (devel_debug /\ main_pc = "loop") =>
          \A a \in Files : (pc[a] = "end" /\ thrown[a] # None) =>
              Get(thrown[a]).type = "ValueError"

\* both files dispatched in order, the second finished before the first
C9_Witness ==
    /\ Len(dandi_files) = 2 /\ dispatched = <<1, 2>>
    /\ pc[2] = "end" /\ InFlight(1)

\* C10: outside serial mode an error is recorded only in the outcome of the job
\* that raised it; at the end of the batch every job is finished, a job that
\* raised nothing is done or skipped, and an only failing job is the batch error
C10_FailureIsolation ==
    ~devel_debug =>
        /\ \A a \in Files :
              Errors(a) # <<>> => thrown[a] # None /\ Errors(a) = <<Get(thrown[a]).message>>
        /\ upload_err # None => thrown[Get(upload_err).job] = upload_err
        /\ main_pc \in {"final", "returned", "raised"} =>
              /\ \A a \in Files : pc[a] = "end"
              /\ \A a \in Files :
                    IF thrown[a] = None
                    THEN last[a].status \in {"done", "skipped"} /\ Errors(a) = <<>>
                    ELSE /\ last[a] = error_file(Get(thrown[a]).message)
                         /\ Errors(a) = <<Get(thrown[a]).message>>
              /\ \A b \in Files :
                    {a \in Files : thrown[a] # None} = {b} => upload_err = thrown[b]

\* the transfer of the first file failed, the second file is done, and the
\* batch raises the error of the first
C10_Witness ==
    /\ ~devel_debug /\ Len(dandi_files) = 2 /\ main_pc = "raised"
    /\ thrown[1] # None /\ Get(thrown[1]).message = "upload failed"
    /\ thrown[2] = None /\ last[2].status = "done"
    /\ raised = thrown[1]

Terminal(a) == pc[a] = "end" /\ last[a].status \in {"done", "skipped", "ERROR"}
SomeJobFailed == \E a \in Files : thrown[a] # None

\* C11: outside serial mode upload() raises upload_err, the error of one of the
\* jobs, only when every file has been dispatched and every job has ended done,
\* skipped or in error; and a run in which a job failed never returns normally
C11_RaiseAfterAll ==
    ~devel_debug =>
        /\ main_pc = "raised" =>
              /\ raised # None /\ raised = upload_err
              /\ Get(raised).job \in Files /\ thrown[Get(raised).job] = raised
              /\ dispatched = InOrder(Len(dandi_files))
              /\ \A a \in Files : Terminal(a)
        /\ raised # None => main_pc = "raised"
        /\ SomeJobFailed => main_pc \notin {"sync", "returned"}
        /\ (SomeJobFailed /\ main_pc = "final") => upload_err # None

\* two jobs failed, the second before the first, and upload() raises the error
\* of the second
C11_Witness ==
    /\ ~devel_debug /\ main_pc = "raised" /\ Len(dandi_files) = 2
    /\ thrown[1] # None /\ thrown[2] # None
    /\ raised = thrown[2]

AllJobsEnded ==
    /\ dispatched = InOrder(Len(dandi_files))
    /\ \A a \in Files : pc[a] = "end"

\* C12: the Delete-Sync pass is entered, and a remote asset deleted, only when
\* the pass was requested, every job has ended and no job failed; in a run in
\* which a job failed nothing is ever deleted
C12_DeleteAfterCleanBatch ==
    /\ (main_pc = "sync" \/ deleted # {}) =>
          /\ sync
          /\ AllJobsEnded
          /\ upload_err = None
          /\ ~SomeJobFailed
    /\ deleted # {} => main_pc = "returned"
    /\ (SomeJobFailed \/ upload_err # None \/ ~sync) => deleted = {}

\* two files, the second transferred, and then a remote asset deleted
C12_Witness ==
    /\ sync /\ deleted # {} /\ main_pc = "returned"
    /\ Len(dandi_files) = 2 /\ last[2].status = "done"

----------------------------------------------------------------------------
(* The Delete-Sync pass *)

\* the remote asset at path p lies under the input path q
Under(p, q) ==
    \/ q = <<>>
    \/ /\ Len(p) > Len(q) + 1
       /\ \A i \in 1..Len(q) : p[i] = q[i]
       /\ p[Len(q) + 1] = Slash

\* the remote assets under an input path that have no local file
Orphans ==
    {p \in remote_assets :
        /\ \E i \in 1..Len(paths) : Under(p, paths[i])
        /\ p \notin local_exists}

PassOver == main_pc \in {"returned", "raised"}

\* C13: when the pass is over the remote assets deleted are, if the user
\* confirmed, exactly those under an input path that have no local file, and
\* none if the user declined
C13_Original ==
    (sync /\ upload_err = None /\ PassOver) =>
        deleted = IF confirm THEN Orphans ELSE {}

----------------------------------------------------------------------------
(* The outcome table *)

RunOver == main_pc \in {"returned", "raised"}

----------------------------------------------------------------------------
(* A second run *)

\* the remote record is the one a finished upload of the local file leaves: it
\* holds the digest and the modification time of the file
RemoteRecordsLocal ==
    /\ DigestsEqual
    /\ RemoteMtimePresent
    /\ RemoteMtime = TheFile.modified

Raises(r, type) == r.raise # None /\ Get(r.raise).type = type

\* C15 as the specification states it: against the record its own upload left,
\* an unchanged file is skipped
C15_Original ==
    (result # None /\ existing \in Policies /\ TheFile.kind = "file"
        /\ RemoteRecordsLocal) => IsSkip(TheDecision)

\* C15 as amended: against the record its own upload left, an unchanged file is
\* skipped under refresh, overwrite and skip, replaced under force and refused
\* under error; a Zarr is replaced
C15_SecondRun ==
    /\ (result # None /\ TheFile.kind = "file" /\ RemoteRecordsLocal) =>
          IF existing = "refresh"
          THEN ~TheDecision.replace /\ TheDecision.raise = None
               /\ TheDecision.out = skip_file("file exists")
          ELSE IF existing \in {"overwrite", "skip"}
          THEN ~TheDecision.replace /\ TheDecision.raise = None
               /\ TheDecision.out = skip_file("exists (same)")
          ELSE IF existing = "force" THEN IsReplace(TheDecision)
          ELSE IF existing = "error" THEN Raises(TheDecision, "FileExistsError")
          ELSE Raises(TheDecision, "ValueError")
    /\ (result # None /\ TheFile.kind = "zarr") => IsReplace(TheDecision)

\* refresh, the scenario of the specification
C15_Witness ==
    /\ result # None /\ existing = "refresh" /\ TheFile.kind = "file"
    /\ RemoteRecordsLocal
    /\ TheDecision.out = skip_file("file exists")

----------------------------------------------------------------------------
(* Serial mode *)

Failed(a) == pc[a] = "end" /\ thrown[a] # None

\* C16 as the specification states it: in serial mode one job runs at a time and
\* the error of a job leaves upload() at once, unrecorded, with no later file
\* dispatched
C16_Original ==
    devel_debug =>
        /\ InFlightCount <= 1
        /\ \A a \in Files : Failed(a) =>
              /\ main_pc = "raised" /\ raised = thrown[a]
              /\ last[a].status # "ERROR"
              /\ idx = a + 1

\* C16 as amended: in serial mode one job runs at a time, on the dispatching
\* thread; an error other than a ValueError leaves upload() at once, unrecorded,
\* with no later file dispatched; a ValueError is put into an ERROR record, the
\* loop goes on, and upload() raises the first error when the loop is over unless
\* a later job ends it before
C16_SerialFailFast ==
    devel_debug =>
        /\ InFlightCount <= 1
        /\ \A a \in Files :
              /\ pc[a] # "queued"
              /\ InFlight(a) => main_pc = "serial" /\ idx = a + 1
              /\ Errors(a) = <<>>
        /\ \A a \in Files : Failed(a) =>
              IF Get(thrown[a]).type # "ValueError"
              THEN /\ main_pc = "raised" /\ raised = thrown[a]
                   /\ last[a].status # "ERROR"
                   /\ idx = a + 1
              ELSE /\ last[a] = error_file(Get(thrown[a]).message)
                   /\ upload_err # None
                   /\ main_pc = "raised" =>
                         \/ raised = upload_err /\ AllJobsEnded
                         \/ \E b \in Files :
                               /\ b > a /\ Failed(b) /\ raised = thrown[b]
                               /\ Get(thrown[b]).type # "ValueError"
                   /\ main_pc \notin {"sync", "returned"}

\* the first file raised a ValueError, which is in its record, and the second
\* file was dispatched after it
C16_Witness ==
    /\ devel_debug /\ Len(dandi_files) = 2
    /\ Failed(1) /\ Get(thrown[1]).type = "ValueError"
    /\ last[1].status = "ERROR"
    /\ pc[2] = "end" /\ main_pc = "raised"

----------------------------------------------------------------------------
(* Validation *)

FailedValidation(a) == thrown[a] # None /\ Get(thrown[a]).message = "failed validation"
AfterValidationCalls ==
    {"get_digest", "get_asset_by_path", "check_replace_asset", "get_metadata",
     "iter_upload"}
\* validation found errors for the file and nothing was reported for it since
ErrorsReported(a) == last[a] = Status("errors")

\* what C17 says of one file
ValidationGate(a) ==
    /\ FailedValidation(a) =>
          /\ validation = "require"
          /\ "get_validation_errors" \in calls[a]
          /\ calls[a] \cap AfterValidationCalls = {}
          /\ ~validate_ok
          /\ (pc[a] = "end" /\ ~devel_debug) => last[a] = error_file("failed validation")
    /\ ErrorsReported(a) =>
          IF validation = "require"
          THEN FailedValidation(a)
          ELSE validation = "ignore" /\ thrown[a] = None /\ pc[a] = "digest"

ValidationOk ==
    /\ validate_ok <=> ~\E a \in Files : FailedValidation(a)
    /\ validation # "require" => validate_ok

\* C17 as the specification states it: a file fails validation exactly when
\* validation is required and finds errors, otherwise it goes on; and, nothing
\* else failing, all other files are still processed to their end
C17_Original ==
    /\ \A a \in Files : ValidationGate(a)
    /\ ValidationOk
    /\ (RunOver /\ \A a \in Files : thrown[a] # None => FailedValidation(a)) =>
          AllJobsEnded

\* C17 as amended: the same, but the other files are processed to their end
\* outside serial mode only; in serial mode a failed validation ends upload()
\* at once
C17_ValidationGate ==
    /\ \A a \in Files : ValidationGate(a)
    /\ ValidationOk
    /\ (RunOver /\ ~devel_debug) => AllJobsEnded
    /\ \A a \in Files : (devel_debug /\ FailedValidation(a) /\ pc[a] = "end") =>
          /\ main_pc = "raised" /\ raised = thrown[a]
          /\ idx = a + 1

\* the first file failed validation, the second was transferred
C17_Witness ==
    /\ ~devel_debug /\ validation = "require" /\ Len(dandi_files) = 2
    /\ RunOver /\ FailedValidation(1) /\ ~validate_ok
    /\ last[1] = error_file("failed validation")
    /\ last[2].status = "done"

----------------------------------------------------------------------------
(* The end of the batch *)

\* upload() went past `raise upload_err`
BatchSucceeded == main_pc \in {"sync", "returned"} \/ deleted # {}
\* the exception that left upload() is the one of the Delete-Sync pass
RaisedBySync == main_pc = "raised" /\ Get(raised).type = "TypeError"
BatchFailed == main_pc = "raised" /\ ~RaisedBySync

\* C18: at the end of the batch upload() raises exactly when upload_err is set,
\* and validate_ok is false only when upload_err is set
C18_FailureIffFirstError ==
    /\ BatchSucceeded => upload_err = None /\ validate_ok
    /\ RaisedBySync => upload_err = None /\ validate_ok
    /\ BatchFailed => upload_err # None
    /\ (main_pc = "final" \/ BatchFailed) => (~validate_ok => upload_err # None)
    /\ (BatchFailed /\ ~devel_debug) => raised = upload_err

\* a failed validation: the batch is not validation-ok and upload() raises
\* the first error
C18_Witness ==
    /\ main_pc = "raised" /\ ~validate_ok
    /\ upload_err # None /\ raised = upload_err
    /\ Get(raised).message = "failed validation"

----------------------------------------------------------------------------
(* The phases of a job *)

\* the collaborator calls of process_path in the order of its text
PhaseCalls ==
    <<"size", "get_validation_errors", "set_raw_metadata", "get_digest",
      "get_asset_by_path", "check_replace_asset", "get_metadata", "iter_upload">>
PhaseOf(call) == CHOOSE i \in 1..Len(PhaseCalls) : PhaseCalls[i] = call
UpTo(call) == {PhaseCalls[i] : i \in 1..PhaseOf(call)}

\* the call in which the exception e was raised
FailingCall(e) ==
    IF e.type = "UploadError"
    THEN IF e.message = "failed validation" THEN "get_validation_errors"
         ELSE IF e.message = "failed to compute digest" THEN "get_digest"
         ELSE IF e.message = "failed to extract metadata" THEN "get_metadata"
         ELSE "size"
    ELSE IF e.type = "Exception" THEN "iter_upload"
    ELSE IF e.type = "HTTPError" THEN "set_raw_metadata"
    ELSE "check_replace_asset"

\* C19: a job makes its calls in the order size, validation, digest, lookup,
\* decision, extraction, transfer; once a call has raised the job is in its
\* handler or over and has made no later call: after a failed size no digest is
\* computed, after a failed extraction no transfer is started and no byte counted
C19_FailStop ==
    \A a \in Files :
        /\ "iter_upload" \in calls[a] => "get_metadata" \in calls[a]
        /\ "get_metadata" \in calls[a] => "get_asset_by_path" \in calls[a]
        /\ "check_replace_asset" \in calls[a] => "get_asset_by_path" \in calls[a]
        /\ ("get_asset_by_path" \in calls[a] /\ Kind(a) = "file") =>
              "get_digest" \in calls[a]
        /\ ("get_digest" \in calls[a] /\ validation # "skip") =>
              "get_validation_errors" \in calls[a]
        /\ calls[a] # {} => (IsLocalDirectoryAsset(Kind(a)) \/ "size" \in calls[a])
        /\ thrown[a] # None =>
              /\ pc[a] \in {"except", "handle", "finally", "end"}
              /\ FailingCall(Get(thrown[a])) \in calls[a]
              /\ calls[a] \subseteq UpTo(FailingCall(Get(thrown[a])))
              /\ FailingCall(Get(thrown[a])) = "size" =>
                    "get_digest" \notin calls[a] /\ file_etag[a] = None
              /\ FailingCall(Get(thrown[a])) = "get_metadata" =>
                    "iter_upload" \notin calls[a] /\ Entry(a).size = 0

\* the extraction failed, the job is over, its error is recorded and no byte
\* was transferred
C19_Witness ==
    /\ ~devel_debug /\ pc[1] = "end"
    /\ thrown[1] # None /\ Get(thrown[1]).message = "failed to extract metadata"
    /\ uploaded_paths[1] = Some(Uploaded(0, <<"failed to extract metadata">>))

----------------------------------------------------------------------------
(* The digest and the error policy *)

\* C20 as the specification states it: under policy error, when a remote record
\* is found no digest has been computed for the file
C20_Original ==
    \A a \in Files :
        (existing = "error" /\ Consulted(a)) => "get_digest" \notin calls[a]

\* C20 as amended: the digest of a compared file is computed before the remote
\* lookup, so under policy error a file with a remote record fails with its
\* digest computed and is not extracted or transferred; for a Zarr no digest is
\* computed, and it does not fail
C20_DigestBeforeLookup ==
    \A a \in Files :
        /\ (Kind(a) = "file" /\ "get_asset_by_path" \in calls[a]) =>
              "get_digest" \in calls[a]
        /\ (Kind(a) = "file" /\ pc[a] = "lookup") => file_etag[a] # None
        /\ (existing = "error" /\ Consulted(a)) =>
              IF Kind(a) = "file"
              THEN /\ "get_digest" \in calls[a]
                   /\ thrown[a] # None /\ Get(thrown[a]).type = "FileExistsError"
                   /\ ~ExtractedOrTransferred(a)
              ELSE /\ "get_digest" \notin calls[a]
                   /\ thrown[a] # None => Get(thrown[a]).type # "FileExistsError"

\* the file failed under policy error, and its digest had been computed
C20_Witness ==
    /\ existing = "error" /\ Kind(1) = "file" /\ Consulted(1)
    /\ "get_digest" \in calls[1]
    /\ pc[1] = "end" /\ thrown[1] # None
    /\ Get(thrown[1]).type = "FileExistsError"

----------------------------------------------------------------------------
(* dandiset.yaml *)

ComparedCalls ==
    {"get_validation_errors", "get_digest", "get_asset_by_path",
     "check_replace_asset", "get_metadata", "iter_upload"}
NeverCompared(a) ==
    /\ calls[a] \cap ComparedCalls = {}
    /\ pc[a] \notin {"digest", "lookup", "extract", "upload"}
    /\ file_etag[a] = None /\ extant[a] = "unset"
    /\ uploaded_paths[a] # None => Entry(a).size = 0
Updated(a) == "set_raw_metadata" \in calls[a] /\ thrown[a] = None
\* the generator returned without an error
EndedDone(a) == pc[a] \in {"finally", "end"} /\ thrown[a] = None

----------------------------------------------------------------------------
(* The freshness label *)

Labels == {"same", "newer", "older", "diff", "no mtime"}
\* the policies under which the decision shows the label in every case
LabelPolicies == {"error", "skip", "force"}
\* the text the decision carries: the message of the exception or of the record
DecisionText == IF TheDecision.raise # None THEN Get(TheDecision.raise).message
                ELSE TheDecision.out.message
ShowsLabel(l) ==
    DecisionText = IF existing = "force" THEN exists_msg(l) \o " - reuploading"
                   ELSE exists_msg(l)
MtimesEqual == RemoteMtimePresent /\ RemoteMtime = TheFile.modified

\* C22: the decision on a compared file shows exactly one freshness label: "no
\* mtime" exactly when the remote mtime is absent; otherwise "same" exactly when
\* the digests are equal and the mtimes are equal; otherwise "newer" when the
\* remote mtime is greater, "older" when it is less, and "diff" exactly when the
\* mtimes are equal and the digests are not
C22_FreshnessLabel ==
    (result # None /\ existing \in LabelPolicies /\ TheFile.kind = "file") =>
        /\ Cardinality({l \in Labels : ShowsLabel(l)}) = 1
        /\ ShowsLabel("no mtime") <=> ~RemoteMtimePresent
        /\ ShowsLabel("same") <=> (MtimesEqual /\ DigestsEqual)
        /\ ShowsLabel("newer") <=> (RemoteMtimePresent /\ RemoteMtime > TheFile.modified)
        /\ ShowsLabel("older") <=> (RemoteMtimePresent /\ RemoteMtime < TheFile.modified)
        /\ ShowsLabel("diff") <=> (MtimesEqual /\ ~DigestsEqual)

\* equal mtimes, and the remote has the local digest value under the other
\* algorithm only: "diff"
C22_Witness ==
    /\ result # None /\ existing = "skip" /\ TheFile.kind = "file"
    /\ MtimesEqual
    /\ DOMAIN TheRemote.digest = {"dandi:sha2-256"}
    /\ TheRemote.digest["dandi:sha2-256"] = TheFile.digest
    /\ TheDecision.out = skip_file("exists (diff)")

----------------------------------------------------------------------------
(* The events of a transfer *)

Received(a) == Get(trace[a]).received
Forwarded(a) == Get(trace[a]).forwarded
\* the places of the events that are to be forwarded: every event but a
\* "post-validating" that follows another
Kept(events) ==
    {i \in 1..Len(events) :
        events[i].status = "post-validating" =>
            ~\E j \in 1..(i - 1) : events[j].status = "post-validating"}
Nth(S, k) == CHOOSE i \in S : Cardinality({j \in S : j <= i}) = k
\* the statuses of the kept events, in the order received
KeptStatuses(events) ==
    [k \in 1..Cardinality(Kept(events)) |-> Status(events[Nth(Kept(events), k)].status)]
UploadingAt(events) == {i \in 1..Len(events) : events[i].status = "uploading"}
\* the byte count of the latest "uploading" event
LatestCurrent(events) ==
    Get(events[CHOOSE i \in UploadingAt(events) : \A j \in UploadingAt(events) : j <= i].current)

\* C23: of the events iter_upload yields for a file, process_path forwards the
\* first "post-validating" and none after it, forwards every other event in the
\* order received, and after an "uploading" event the size in uploaded_paths
\* is the byte count of the latest such event
C23_TransferEvents ==
    \A a \in Files :
        trace[a] # None =>
            /\ Forwarded(a) = KeptStatuses(Received(a))
            /\ Cardinality({i \in 1..Len(Forwarded(a)) :
                               Forwarded(a)[i].status = "post-validating"}) <= 1
            /\ (pc[a] = "upload" /\ Received(a) # <<>>) =>
                  last[a] = Forwarded(a)[Len(Forwarded(a))]
            /\ IF UploadingAt(Received(a)) # {}
               THEN /\ uploaded_paths[a] # None
                    /\ Entry(a).size = LatestCurrent(Received(a))
               ELSE Entry(a).size = 0

\* "post-validating" came twice, around an "uploading" with a byte count of 2:
\* it was forwarded once, and the size is 2
C23_Witness ==
    /\ trace[1] # None /\ pc[1] = "upload"
    /\ Received(1) = <<Event("post-validating", None), Event("uploading", Some(2)),
                       Event("post-validating", None)>>
    /\ Forwarded(1) = <<Status("post-validating"), Status("uploading")>>
    /\ Entry(1).size = 2

----------------------------------------------------------------------------
(* The first error *)

\* C24: upload_err is written once: after a failing job has set it no job
\* changes it, whatever the interleaving of the jobs
C24_Original == [][upload_err # None => upload_err' = upload_err]_vars

----------------------------------------------------------------------------
(* The terminal statuses of a job *)

Done == Status("done")
ReportedDone(a) == \E i \in 1..Len(emitted[a]) : emitted[a][i].status = "done"

----------------------------------------------------------------------------
(* Termination outside serial mode *)

\* the jobs that were given to process_path and have not ended
Unfinished == {a \in Files : pc[a] \notin {"new", "end"}}
LoopOver == idx > Len(dandi_files) /\ main_pc \notin {"loop", "serial"}

----------------------------------------------------------------------------
(* A value of `existing` that is no policy *)

InvalidPolicy == existing \notin Policies
InvalidMessage == "invalid value for 'existing'"
RaisedInvalid(a) ==
    /\ thrown[a] # None
    /\ Get(thrown[a]).type = "ValueError"
    /\ Get(thrown[a]).message = InvalidMessage

\* C27 as the specification states it: under a value of `existing` that is no
\* policy, every asset with a remote record fails with the ValueError and is
\* neither skipped nor transferred
C27_Original ==
    \A a \in Files :
        (InvalidPolicy /\ Consulted(a)) =>
            /\ RaisedInvalid(a)
            /\ last[a].status # "skipped"
            /\ ~ExtractedOrTransferred(a)

\* C27 as amended: the same of every asset that is not a Zarr; a Zarr with a
\* remote record is replaced, the value of `existing` not being looked at; and
\* the ValueError is raised for no other asset and under no policy
C27_InvalidPolicy ==
    \A a \in Files :
        /\ (InvalidPolicy /\ Consulted(a) /\ Kind(a) = "file") =>
              /\ RaisedInvalid(a)
              /\ pc[a] \in {"except", "handle", "finally", "end"}
              /\ ~ExtractedOrTransferred(a)
              /\ uploaded_paths[a] # None => Entry(a).size = 0
              /\ emitted[a] \in {<<>>, <<error_file(InvalidMessage)>>}
              /\ pc[a] = "end" =>
                    /\ last[a] = error_file(InvalidMessage)
                    /\ upload_err = thrown[a]
                    /\ main_pc \notin {"sync", "returned"}
        /\ (InvalidPolicy /\ Consulted(a) /\ Kind(a) = "zarr") =>
              /\ ~RaisedInvalid(a)
              /\ pc[a] = "extract" => last[a] = Message("exists - reuploading")
              /\ pc[a] = "extract" \/ "get_metadata" \in calls[a]
        /\ RaisedInvalid(a) => (InvalidPolicy /\ Consulted(a) /\ Kind(a) = "file")

\* the file has a remote record: its job ended in error and upload() raises
\* the ValueError
C27_Witness ==
    /\ InvalidPolicy /\ ~devel_debug
    /\ Kind(1) = "file" /\ Consulted(1) /\ pc[1] = "end"
    /\ last[1] = error_file(InvalidMessage)
    /\ main_pc = "raised" /\ raised = thrown[1]

====
